---- MODULE Spec2Model ----
(***************************************************************************)
(* Model of the screenshot library (package screenshot, screenshot.go):    *)
(* the cache-aware CreateImage pipeline with its existence check, the      *)
(* render step with its recovery boundary, the direct download of image    *)
(* URLs and the file write; the configuration with its setters and Do();   *)
(* the two host lists that switch JavaScript per site.                     *)
(*                                                                         *)
(* Strings that the code inspects character by character (URLs, file       *)
(* names, extensions) are sequences of one-character strings.  The cache   *)
(* directory is one directory; its files are keyed by their bare name.     *)
(* Time is counted in hours, the unit of ImageAge.  The path of a host     *)
(* list file is the sequence of its components, relative to "." or         *)
(* absolute.                                                               *)
(***************************************************************************)
EXTENDS Integers, Sequences, FiniteSets, TLC

\* ------------------------------------------------------------------ bounds

\* Last hour the clock can reach.
MaxTime == 1

\* The longest text given to fileExt() on its own.
MaxUrlLen == 4

\* ------------------------------------------------------- program constants

\* exists(): `4096 > fi.Size()`; generateImage()/cleanupOutput(): `4096 < len`.
MinSize == 4096

\* ssOptions.ImageQuality initial value.
DefaultQuality == 75

\* `100 > ssOptions.ImageQuality` selects `jpeg`; 100 itself selects `png`.
MaxQuality == 100

\* ssOptions.MaxProcessTime initial value (seconds).
DefaultProcessTime == 32

\* A max-age that no artifact can outlive within the modelled time.
LargeAge == MaxTime + 1

\* defaultImageHeight, defaultImageWidth.
defaultImageHeight == 768

defaultImageWidth == 896

\* ssReadWaitTime initial value (minutes), also what SetReadWaitTime falls
\* back to.
DefaultReadWaitTime == 1

\* time.Hour / time.Minute: ImageAge counts hours, ssReadWaitTime minutes.
MinutesPerHour == 60

\* defaultHostsAvoidJS, defaultHostsNeedJS: the fixed names of the two host
\* list files.
defaultHostsAvoidJS == "hostsavoidjs.list"

defaultHostsNeedJS == "hostsneedjs.list"

\* -------------------------------------------------------------- characters

WordChars ==
  {
    "a", "b", "c", "d", "e", "f", "g", "h", "i", "j", "k", "l", "m", "n",
    "o", "p", "q", "r", "s", "t", "u", "v", "w", "x", "y", "z", "A", "B",
    "C", "D", "E", "F", "G", "H", "I", "J", "K", "L", "M", "N", "O", "P",
    "Q", "R", "S", "T", "U", "V", "W", "X", "Y", "Z", "0", "1", "2", "3",
    "4", "5", "6", "7", "8", "9", "_"
  }

LowerOf ==
  [ A |-> "a", B |-> "b", C |-> "c", D |-> "d", E |-> "e", F |-> "f", G |->
    "g", H |-> "h", I |-> "i", J |-> "j", K |-> "k", L |-> "l", M |-> "m", N
    |-> "n", O |-> "o", P |-> "p", Q |-> "q", R |-> "r", S |-> "s", T |-> "t",
    U |-> "u", V |-> "v", W |-> "w", X |-> "x", Y |-> "y", Z |-> "z" ]

\* Mutant of ToLower: the string is left as it is.
ToLowerNot(s) == s

\* strings.ToLower on one character / on a string.
ToLowerCh(c) == IF c \in DOMAIN LowerOf THEN LowerOf[c] ELSE c

ToLower(s) == [i \in 1..Len(s) |-> ToLowerCh(s[i])]

\* strings.TrimSpace: leading and trailing blanks are cut off.
TrimSpace(s) ==
  LET inked == {i \in 1..Len(s) : s[i] # " "}
  IN  IF inked = {} THEN <<>>
      ELSE LET lo == CHOOSE i \in inked : \A j \in inked : i <= j
               hi == CHOOSE i \in inked : \A j \in inked : i >= j
           IN  SubSeq(s, lo, hi)

\* strings.HasSuffix.
HasSuffix(s, suffix) ==
  /\ Len(suffix) <= Len(s)
  /\ SubSeq(s, Len(s) - Len(suffix) + 1, Len(s)) = suffix

\* defaultPlatform and DefaultAgent.
defaultPlatform == <<"L","i","n","u","x"," ","x","8","6","_","6","4">>

DefaultAgent ==
  <<"M","o","z","i","l","l","a","/","5",".","0"," ","(","X","1","1",";"," ","L","i","n","u","x"," ","x","8","6","_","6","4",";"," ","r","v",":","8","9",".","0",")"," ">>
  \o <<"G","e","c","k","o","/","2","0","1","0","0","1","0","1"," ","F","i","r","e","f","o","x","/","8","9",".","0">>

\* os.TempDir() and the working directory of the process.
TempDir == <<"/","t","m","p">>

Cwd == "/cwd"

Dot == <<".">>

Jpeg == <<"j","p","e","g">>

Png == <<"p","n","g">>

\* The empty string.
Empty == <<>>

\* ssImageTypes: map[bool]string{false: `png`, true: `jpeg`}.
ssImageTypes(lossy) == IF lossy THEN Jpeg ELSE Png

\* The other of the two formats (switch in CreateImage).
OtherType(ext) == IF ext = Jpeg THEN Png ELSE Jpeg

\* sanitise(): every run of non-word characters (`\W+`) is removed.
sanitise(aURL) == SelectSeq(aURL, LAMBDA c : c \in WordChars)

\* End of the maximal run of word characters that starts at position i.
WordRunEnd(s, i) ==
  LET stops == {k \in i..Len(s) : s[k] \notin WordChars}
  IN  IF stops = {} THEN Len(s)
      ELSE (CHOOSE k \in stops : \A m \in stops : k <= m) - 1

\* Whether ssExtRE = `(\.\w+)([\?\#].*)?$` matches with group 1 starting at i:
\* a dot, one or more word characters, then the end of the text or a '?' or
\* '#' followed by anything but a line break up to the end.
ExtMatchAt(s, i) ==
  /\ s[i] = "."
  /\ i < Len(s)
  /\ s[i + 1] \in WordChars
  /\ LET j == WordRunEnd(s, i + 1)
     IN  \/ j = Len(s)
         \/ /\ s[j + 1] \in {"?", "#"}
            /\ \A k \in (j + 2)..Len(s) : s[k] # "\n"

\* fileExt(): group 1 of the leftmost match of ssExtRE, else "".
fileExt(aURL) ==
  LET starts == {i \in 1..Len(aURL) : ExtMatchAt(aURL, i)}
  IN  IF starts = {} THEN Empty
      ELSE LET i == CHOOSE k \in starts : \A m \in starts : k <= m
           IN  SubSeq(aURL, i, WordRunEnd(aURL, i + 1))

ExcludedExts ==
  {
    <<".","a","m","r">>, <<".","a","r","j">>, <<".","a","v","i">>,
    <<".","a","z","w","3">>, <<".","b","a","k">>,
    <<".","b","i","b","t","e","x">>, <<".","b","z","2">>,
    <<".","c","f","g">>, <<".","c","o","m">>, <<".","c","o","n","f">>,
    <<".","c","s","v">>, <<".","d","b">>, <<".","d","e","b">>,
    <<".","d","o","c">>, <<".","d","o","c","x">>, <<".","d","i","a">>,
    <<".","e","p","u","b">>, <<".","e","x","e">>, <<".","f","l","v">>,
    <<".","g","z">>, <<".","i","c","s">>, <<".","i","s","o">>,
    <<".","j","a","r">>, <<".","j","s","o","n">>, <<".","m","d">>,
    <<".","m","o","b","i">>, <<".","m","p","3">>, <<".","m","p","4">>,
    <<".","m","p","e","g">>, <<".","o","d","f">>, <<".","o","d","g">>,
    <<".","o","d","p">>, <<".","o","d","s">>, <<".","o","d","t">>,
    <<".","o","t","f">>, <<".","o","x","t">>, <<".","p","a","s">>,
    <<".","p","d","f">>, <<".","p","p","d">>, <<".","p","p","t">>,
    <<".","p","p","t","x">>, <<".","r","i","p">>, <<".","r","p","m">>,
    <<".","s","p","k">>, <<".","s","x","g">>, <<".","s","x","w">>,
    <<".","t","t","f">>, <<".","v","b","o","x">>, <<".","v","m","d","k">>,
    <<".","v","c","s">>, <<".","w","a","v">>, <<".","x","l","s">>,
    <<".","x","p","i">>, <<".","x","s","l">>, <<".","z","i","p">>
  }

\* case ".gif", ".jpeg", ".jpg", ".png", ".svg" of CreateImage.
ImageExts ==
  { <<".","g","i","f">>, <<".","j","p","e","g">>, <<".","j","p","g">>,
    <<".","p","n","g">>, <<".","s","v","g">> }

\* ------------------------------------------------------------------ inputs

\* The URLs CreateImage is called with: a web page, a document with an
\* excluded extension (upper-case in the URL), and a direct image.
UrlPage == <<"a","/","p">>

UrlPdf == <<"a",".","P","D","F">>

UrlPng == <<"a",".","p","n","g">>

Urls == {UrlPage, UrlPdf, UrlPng}

\* sanitise(aURL) and strings.ToLower(fileExt(aURL)), tabulated.
SanitisedUrl == [u \in Urls |-> sanitise(u)]

LowerExtOfUrl == [u \in Urls |-> ToLower(fileExt(u))]

\* Every file name CreateImage can derive from these URLs.
Names ==
  UNION { {sanitise(u) \o Dot \o Jpeg, sanitise(u) \o Dot \o Png} : u \in Urls }
  \cup { sanitise(u) \o ToLower(fileExt(u)) :
            u \in {v \in Urls : ToLower(fileExt(v)) \in ImageExts} }

\* Byte lengths around the plausibility threshold.
Sizes == {MinSize - 1, MinSize, MinSize + 1}

\* A byte buffer: its length, what it holds ("enc": re-encoded image, "raw":
\* backend bytes as captured, "body": HTTP response body) and how many
\* leading bytes of the original capture are missing from it.
NoBytes == [len |-> 0, kind |-> "none", skip |-> 0]

\* The capture `rawData` that chromedp.Run leaves behind: nil, or g
\* undecodable leading bytes followed by an n-byte image of the configured
\* format (n = 0: nothing decodable), whose re-encoding after cropScale is e
\* bytes long.
NilRaw == [nil |-> TRUE, g |-> 0, n |-> 0, e |-> 0]

RawDatas ==
  { NilRaw,
    [nil |-> FALSE, g |-> 1, n |-> 0, e |-> 0],
    [nil |-> FALSE, g |-> 0, n |-> MinSize - 1, e |-> MinSize],
    [nil |-> FALSE, g |-> 1, n |-> MinSize, e |-> MinSize],
    [nil |-> FALSE, g |-> 1, n |-> MinSize - 1, e |-> MinSize + 1] }

\* What the render backend does in one call: the error chromedp.Run returns,
\* whether and where the call panics, the capture, and whether the deadline
\* context is done when generateImage has returned.  A Run that reports the
\* deadline error implies an expired deadline.
RunErrs == {"nil", "ErrBackend", "ErrDeadline"}

NoRender == [err |-> "nil", panic |-> "none", raw |-> NilRaw, expired |-> FALSE]

RenderIns ==
  { r \in [err : RunErrs, panic : {"none"}, raw : RawDatas, expired : BOOLEAN] :
      r.err = "ErrDeadline" => r.expired }
  \cup [err : {"nil"}, panic : {"run"}, raw : {NilRaw}, expired : BOOLEAN]
  \cup [err : {"nil"}, panic : {"run"},
        raw : {[nil |-> FALSE, g |-> 0, n |-> MinSize - 1, e |-> MinSize + 1]},
        expired : {FALSE}]
  \cup [err : {"nil", "ErrBackend"}, panic : {"cleanup"},
        raw : {[nil |-> FALSE, g |-> 0, n |-> MinSize - 1, e |-> MinSize]},
        expired : {FALSE}]

\* What http.Get does: fail, or answer with a response whose ContentLength
\* is unknown (-1), zero, or the length of its body.
NoGet == [ok |-> FALSE, clen |-> 0]

GetIns == {NoGet} \cup [ok : {TRUE}, clen : {-1, 0} \cup Sizes]

NoResponse == [nil |-> TRUE, clen |-> 0]

\* What the file system does during writeFile: whether OpenFile and the
\* write (file.Write or io.Copy) succeed.
AllFine == [open |-> TRUE, write |-> TRUE]

WriteIns ==
  {AllFine, [open |-> FALSE, write |-> TRUE], [open |-> TRUE, write |-> FALSE]}

NoInput == [r |-> NoRender, g |-> NoGet, w |-> AllFine]

\* The empty file name "".
NoPath == <<>>

\* The host list files there can be: one per policy in the working directory
\* and in /etc.
ListDirs == {Cwd, "/etc"}

ListPaths ==
  {<<d, n>> : d \in ListDirs, n \in {defaultHostsAvoidJS, defaultHostsNeedJS}}

\* A list file that is missing or unreadable.
NoListFile == [ok |-> FALSE, lines |-> <<>>]

\* What a list file can hold, as the lines strings.Split gives: a comment
\* and an entry that ends the model's web page URL, written with blanks and
\* in upper case; an entry that matches nothing; nothing but a comment and
\* an empty line; no byte at all.
ListP == << <<"#","x">>, <<" ","/","P"," ">>, <<>> >>

ListX == << <<"x">> >>

ListComment == << <<"#","x">>, <<>> >>

\* A list that is not sorted and names a host twice, among lines to drop.
ListMixed == << <<"x">>, <<"#","c">>, <<" ","B"," ">>, <<>>, <<"x">> >>

ListContents == {ListP, ListX, ListComment, ListMixed, <<>>}

\* A host list in memory (tAvoidNeedFile) before it was ever loaded.
NoList == [nextTime |-> 0, list |-> <<>>]

\* ------------------------------------------------------------------- state

VARIABLES
  ssOptions,       \* the configured options
  files,           \* the cache directory: file name -> file
  now,             \* the clock, in hours
  last,            \* the latest CreateImage or Do call, as the caller saw it
  ssAvoidJSsites,  \* the hosts to avoid JavaScript for, in memory
  ssNeedJSsites,   \* the hosts that need JavaScript, in memory
  ssReadWaitTime,  \* minutes before a host list file is read again
  listFiles,       \* the host list files on disk: path -> content
  race             \* two concurrent CreateImage calls for one URL, and their file

hostVars == <<ssAvoidJSsites, ssNeedJSsites, ssReadWaitTime, listFiles>>

vars == <<ssOptions, files, now, last, hostVars, race>>

NoFile == [kind |-> "none", size |-> 0, mtime |-> 0]

\* A regular file written at the current time.
RegFile(size) == [kind |-> "reg", size |-> size, mtime |-> now]

DirFile == [kind |-> "dir", size |-> 0, mtime |-> 0]

\* No call observed: the value of `last` before the first call and after
\* anything but a call or the passing of time has happened.
NoCall ==
  [url |-> Empty, name |-> Empty, err |-> "nil", via |-> "none",
   gets |-> 0, renders |-> 0, in |-> NoInput,
   hit |-> FALSE, hit2 |-> FALSE, changed |-> FALSE,
   prev |-> Empty, prevSize |-> 0, at |-> 0,
   js |-> FALSE, lists |-> [avoid |-> NoList, need |-> NoList],
   arg |-> <<>>, was |-> <<>>, out |-> <<>>]

\* ------------------------------------------------------- private functions

\* Mutant of exists: without a max-age nothing is ever usable (the shortcut
\* `if 0 == ssOptions.ImageAge { return false }`).
existsNeverWithoutAge(aFilename) ==
  IF Len(aFilename) = 0 \/ ssOptions.ImageAge = 0 THEN FALSE
  ELSE LET fi == files[aFilename]
       IN  IF fi.kind = "none" THEN FALSE
           ELSE IF fi.kind # "reg" THEN TRUE
           ELSE IF MinSize > fi.size THEN FALSE
           ELSE IF ssOptions.ImageOverwrite THEN FALSE
           ELSE now < fi.mtime + ssOptions.ImageAge

\* Mutant of exists: a file of exactly the minimum size is too small.
existsOffByOne(aFilename) ==
  IF Len(aFilename) = 0 THEN FALSE
  ELSE LET fi == files[aFilename]
       IN  IF fi.kind = "none" THEN FALSE
           ELSE IF fi.kind # "reg" THEN TRUE
           ELSE IF MinSize >= fi.size THEN FALSE
           ELSE IF ssOptions.ImageOverwrite THEN FALSE
           ELSE IF 0 < ssOptions.ImageAge
                THEN now < fi.mtime + ssOptions.ImageAge
           ELSE TRUE

\* Mutant of exists: a directory is no usable file (`fi.IsDir()` gives false).
existsDirFalse(aFilename) ==
  IF Len(aFilename) = 0 THEN FALSE
  ELSE LET fi == files[aFilename]
       IN  IF fi.kind # "reg" THEN FALSE
           ELSE IF MinSize > fi.size THEN FALSE
           ELSE IF ssOptions.ImageOverwrite THEN FALSE
           ELSE IF 0 < ssOptions.ImageAge
                THEN now < fi.mtime + ssOptions.ImageAge
           ELSE TRUE

\* Mutant of exists: a file is still usable at the instant its age runs out.
existsAgeInclusive(aFilename) ==
  IF Len(aFilename) = 0 THEN FALSE
  ELSE LET fi == files[aFilename]
       IN  IF fi.kind = "none" THEN FALSE
           ELSE IF fi.kind # "reg" THEN TRUE
           ELSE IF MinSize > fi.size THEN FALSE
           ELSE IF ssOptions.ImageOverwrite THEN FALSE
           ELSE IF 0 < ssOptions.ImageAge
                THEN now <= fi.mtime + ssOptions.ImageAge
           ELSE TRUE

\* Mutant of exists: the age is tested before the overwrite flag.
existsAgeFirst(aFilename) ==
  IF Len(aFilename) = 0 THEN FALSE
  ELSE LET fi == files[aFilename]
       IN  IF fi.kind = "none" THEN FALSE
           ELSE IF fi.kind # "reg" THEN TRUE
           ELSE IF MinSize > fi.size THEN FALSE
           ELSE IF 0 < ssOptions.ImageAge
                THEN now < fi.mtime + ssOptions.ImageAge
           ELSE ~ssOptions.ImageOverwrite

\* exists(): whether a usable image file is already there.  File names of
\* the model hold no white space, so TrimSpace changes nothing.
exists(aFilename) ==
  IF Len(aFilename) = 0 THEN FALSE
  ELSE LET fi == files[aFilename]
       IN  IF fi.kind = "none" THEN FALSE            \* os.Stat fails
           ELSE IF fi.kind # "reg" THEN TRUE         \* irregular: left alone
           ELSE IF MinSize > fi.size THEN FALSE
           ELSE IF ssOptions.ImageOverwrite THEN FALSE
           ELSE IF 0 < ssOptions.ImageAge
                THEN now < fi.mtime + ssOptions.ImageAge
           ELSE TRUE

\* Mutant of cropScale: an image that is too big in any direction is scaled
\* to the configured size.
cropScaleAlwaysScales(aSize) ==
  LET xIsBigger == 0 < ssOptions.ImageWidth /\ aSize.X > ssOptions.ImageWidth
      yIsBigger == 0 < ssOptions.ImageHeight /\ aSize.Y > ssOptions.ImageHeight
      doMagnify == \/ ~xIsBigger /\ aSize.X < ssOptions.ImageWidth
                   \/ ~yIsBigger /\ aSize.Y < ssOptions.ImageHeight
  IN  IF xIsBigger \/ yIsBigger \/ doMagnify
      THEN [X |-> ssOptions.ImageWidth, Y |-> ssOptions.ImageHeight,
            how |-> "scaled"]
      ELSE [X |-> aSize.X, Y |-> aSize.Y, how |-> "same"]

\* cropScale(): the size of the image it returns for one of the size given,
\* and how it got there: scaled to the configured size when both sides are
\* too big, cut to the configured height or width when one side is, scaled
\* to the configured size when no side is too big and one is too small, and
\* the same image otherwise.
cropScale(aSize) ==
  LET xIsBigger == 0 < ssOptions.ImageWidth /\ aSize.X > ssOptions.ImageWidth
      yIsBigger == 0 < ssOptions.ImageHeight /\ aSize.Y > ssOptions.ImageHeight
      doCrop == xIsBigger \/ yIsBigger
      doMagnify == \/ ~xIsBigger /\ aSize.X < ssOptions.ImageWidth
                   \/ ~yIsBigger /\ aSize.Y < ssOptions.ImageHeight
  IN  IF doCrop /\ yIsBigger /\ xIsBigger
      THEN [X |-> ssOptions.ImageWidth, Y |-> ssOptions.ImageHeight,
            how |-> "scaled"]
      ELSE IF doCrop /\ yIsBigger
      THEN [X |-> aSize.X, Y |-> ssOptions.ImageHeight, how |-> "cropped"]
      ELSE IF doCrop
      THEN [X |-> ssOptions.ImageWidth, Y |-> aSize.Y, how |-> "cropped"]
      ELSE IF doMagnify
      THEN [X |-> ssOptions.ImageWidth, Y |-> ssOptions.ImageHeight,
            how |-> "scaled"]
      ELSE [X |-> aSize.X, Y |-> aSize.Y, how |-> "same"]

\* Mutant of cleanupOutput: the fallback returns the capture as it was given,
\* leading bytes included.
cleanupOutputWhole(aRawData) ==
  IF aRawData.g + aRawData.n = 0 THEN NoBytes
  ELSE IF aRawData.n = 0 THEN NoBytes
  ELSE IF MinSize < aRawData.e
       THEN [len |-> aRawData.e, kind |-> "enc", skip |-> aRawData.g]
  ELSE [len |-> aRawData.g + aRawData.n, kind |-> "raw", skip |-> 0]

\* cleanupOutput(): drops leading bytes until the rest decodes, resizes and
\* re-encodes; the re-encoded buffer is returned when it is longer than
\* 4096 bytes, otherwise what is left of the raw data.
cleanupOutput(aRawData) ==
  IF aRawData.g + aRawData.n = 0 THEN NoBytes
  ELSE IF aRawData.n = 0 THEN NoBytes                \* nothing ever decodes
  ELSE IF MinSize < aRawData.e
       THEN [len |-> aRawData.e, kind |-> "enc", skip |-> aRawData.g]
  ELSE [len |-> aRawData.n, kind |-> "raw", skip |-> aRawData.g]

\* Mutant of recoverGenerate: the panic is recovered but no error is made up.
recoverGenerateUnset(aErr) ==
  [img |-> NoBytes, err |-> aErr, panicked |-> FALSE]

\* The deferred function of generateImage(): a panic is recovered, and an
\* error is made up when none is set yet.
recoverGenerate(aErr) ==
  [img |-> NoBytes,
   err |-> IF aErr = "nil" THEN "ErrReading" ELSE aErr,
   panicked |-> FALSE]

\* Mutant of generateImage: no deferred recover(), a panic leaves the
\* function.
generateImageNoRecover(aRun) ==
  IF aRun.panic = "run"
  THEN [img |-> NoBytes, err |-> "nil", panicked |-> TRUE]
  ELSE IF aRun.raw.nil
       THEN [img |-> NoBytes, err |-> aRun.err, panicked |-> FALSE]
  ELSE IF aRun.panic = "cleanup"
       THEN [img |-> NoBytes, err |-> aRun.err, panicked |-> TRUE]
  ELSE LET rImage == cleanupOutput(aRun.raw)
       IN  [img |-> rImage,
            err |-> IF MinSize < rImage.len THEN "nil" ELSE aRun.err,
            panicked |-> FALSE]

\* Mutant of generateImage: a plausible result does not clear the error of
\* the run.
generateImageKeepsError(aRun) ==
  IF aRun.panic = "run" THEN recoverGenerate("nil")
  ELSE IF aRun.raw.nil
       THEN [img |-> NoBytes, err |-> aRun.err, panicked |-> FALSE]
  ELSE IF aRun.panic = "cleanup" THEN recoverGenerate(aRun.err)
  ELSE [img |-> cleanupOutput(aRun.raw), err |-> aRun.err, panicked |-> FALSE]

\* generateImage(): runs the backend and normalises its capture.  A result
\* longer than 4096 bytes clears the error of the run.
generateImage(aRun) ==
  IF aRun.panic = "run" THEN recoverGenerate("nil")
  ELSE IF aRun.raw.nil
       THEN [img |-> NoBytes, err |-> aRun.err, panicked |-> FALSE]
  ELSE IF aRun.panic = "cleanup" THEN recoverGenerate(aRun.err)
  ELSE LET rImage == cleanupOutput(aRun.raw)
       IN  [img |-> rImage,
            err |-> IF MinSize < rImage.len THEN "nil" ELSE aRun.err,
            panicked |-> FALSE]

\* Mutant of writeFile: the file is removed again after a successful write.
writeFileLost(aFilename, aData, aResponse, w) ==
  IF Len(aFilename) = 0
  THEN [err |-> "ErrEmptyName", files |-> files]
  ELSE IF files[aFilename].kind = "dir" \/ ~w.open
  THEN [err |-> "ErrOpen", files |-> files]
  ELSE LET removed == [files EXCEPT ![aFilename] = NoFile]
       IN  IF 0 < aData.len \/ (~aResponse.nil /\ 0 < aResponse.clen)
           THEN [err |-> IF w.write THEN "nil" ELSE "ErrWrite",
                 files |-> removed]
           ELSE [err |-> "ErrNoImageData", files |-> removed]

\* Mutant of writeFile: without anything to write the file is left behind,
\* created or truncated, and no error is returned.
writeFileNothing(aFilename, aData, aResponse, w) ==
  IF Len(aFilename) = 0
  THEN [err |-> "ErrEmptyName", files |-> files]
  ELSE IF files[aFilename].kind = "dir" \/ ~w.open
  THEN [err |-> "ErrOpen", files |-> files]
  ELSE LET removed == [files EXCEPT ![aFilename] = NoFile]
       IN  IF 0 < aData.len
           THEN IF w.write
                THEN [err |-> "nil",
                      files |-> [files EXCEPT
                                   ![aFilename] = RegFile(aData.len)]]
                ELSE [err |-> "ErrWrite", files |-> removed]
           ELSE IF ~aResponse.nil /\ 0 < aResponse.clen
           THEN IF w.write
                THEN [err |-> "nil",
                      files |-> [files EXCEPT
                                   ![aFilename] = RegFile(aResponse.clen)]]
                ELSE [err |-> "ErrWrite", files |-> removed]
           ELSE [err |-> "nil",
                 files |-> [files EXCEPT ![aFilename] = RegFile(0)]]

\* Mutant of writeFile: a file that could not be written is left behind,
\* truncated.
writeFileKeepsPartial(aFilename, aData, aResponse, w) ==
  IF Len(aFilename) = 0
  THEN [err |-> "ErrEmptyName", files |-> files]
  ELSE IF files[aFilename].kind = "dir" \/ ~w.open
  THEN [err |-> "ErrOpen", files |-> files]
  ELSE LET truncated == [files EXCEPT ![aFilename] = RegFile(0)]
           size == IF 0 < aData.len THEN aData.len ELSE aResponse.clen
       IN  IF 0 < aData.len \/ (~aResponse.nil /\ 0 < aResponse.clen)
           THEN IF w.write
                THEN [err |-> "nil",
                      files |-> [files EXCEPT ![aFilename] = RegFile(size)]]
                ELSE [err |-> "ErrWrite", files |-> truncated]
           ELSE [err |-> "ErrNoImageData", files |-> truncated]

\* writeFile(): opens the file truncating it, writes the data or copies the
\* response body, and removes the file again when that fails.
writeFile(aFilename, aData, aResponse, w) ==
  IF Len(aFilename) = 0
  THEN [err |-> "ErrEmptyName", files |-> files]
  ELSE IF files[aFilename].kind = "dir" \/ ~w.open
  THEN [err |-> "ErrOpen", files |-> files]
  ELSE LET removed == [files EXCEPT ![aFilename] = NoFile]
       IN  IF 0 < aData.len
           THEN IF w.write
                THEN [err |-> "nil",
                      files |-> [files EXCEPT
                                   ![aFilename] = RegFile(aData.len)]]
                ELSE [err |-> "ErrWrite", files |-> removed]
           ELSE IF ~aResponse.nil /\ 0 < aResponse.clen
           THEN IF w.write
                THEN [err |-> "nil",
                      files |-> [files EXCEPT
                                   ![aFilename] = RegFile(aResponse.clen)]]
                ELSE [err |-> "ErrWrite", files |-> removed]
           ELSE [err |-> "ErrNoImageData", files |-> removed]

\* -------------------------------------------------------------- host lists

\* filepath.Abs: a relative path is put under the working directory.
Abs(aPath) ==
  IF aPath # NoPath /\ Head(aPath) = "." THEN <<Cwd>> \o Tail(aPath) ELSE aPath

\* stat(): the absolute path of a file that is there, is no directory, is
\* not empty and can be read.
stat(aFilename) ==
  LET fName == Abs(aFilename)
  IN  IF fName \in ListPaths /\ listFiles[fName].ok
         /\ listFiles[fName].lines # <<>>
      THEN [fName |-> fName, ok |-> TRUE]
      ELSE [fName |-> NoPath, ok |-> FALSE]

\* setHosts4JS(): the path of the list file to configure, "" when there is
\* no usable file.  The paths of the model hold no blanks.
setHosts4JS(aPathname, aNameConstant) ==
  LET given == IF aPathname = NoPath THEN <<".", aNameConstant>>
               ELSE aPathname
      named == IF HasSuffix(given, <<aNameConstant>>) THEN given
               ELSE given \o <<aNameConstant>>   \* filepath.Join(p, ".", n)
      st == stat(named)
  IN  IF st.ok THEN st.fName ELSE NoPath

\* Mutant of cleanLines: only the empty lines are removed.
RECURSIVE cleanLinesKeepsComments(_)
cleanLinesKeepsComments(aLines) ==
  IF aLines = <<>> THEN <<>>
  ELSE LET line == ToLower(TrimSpace(Head(aLines)))
       IN  IF Len(line) = 0
           THEN cleanLinesKeepsComments(Tail(aLines))
           ELSE <<line>> \o cleanLinesKeepsComments(Tail(aLines))

\* The loop of readListFile(): every line is trimmed and lower-cased, empty
\* lines and comments are removed.
RECURSIVE cleanLines(_)
cleanLines(aLines) ==
  IF aLines = <<>> THEN <<>>
  ELSE LET line == ToLower(TrimSpace(Head(aLines)))
       IN  IF Len(line) = 0 \/ Head(line) = "#"
           THEN cleanLines(Tail(aLines))
           ELSE <<line>> \o cleanLines(Tail(aLines))

\* readListFile(): the entries of the named file; none when the name is
\* empty, the file cannot be read or holds no byte.
readListFile(aFilename) ==
  IF aFilename = NoPath THEN <<>>
  ELSE IF aFilename \notin ListPaths THEN <<>>
  ELSE IF ~listFiles[aFilename].ok \/ listFiles[aFilename].lines = <<>>
  THEN <<>>
  ELSE cleanLines(listFiles[aFilename].lines)

\* Mutant of containsHost: the needle has to be an entry of the list.
containsHostExact(aNeedle, aHaystack) ==
  \E i \in 1..Len(aHaystack) : aNeedle = aHaystack[i]

\* containsHost(): whether the needle ends with an entry of the list.
containsHost(aNeedle, aHaystack) ==
  \E i \in 1..Len(aHaystack) :
    LET entry == aHaystack[i]
    IN  /\ ~(Len(entry) = 0 \/ Head(entry) = "#")
        /\ HasSuffix(aNeedle, entry)

\* What chk4() matches of a URL: URL.Hostname() or, for a URL without
\* "//host", URL.Path.  The URLs of the model have no scheme and no host
\* part, so it is the path: the URL up to its query or fragment.
hostOrPath(aURL) ==
  LET stops == {i \in 1..Len(aURL) : aURL[i] \in {"?", "#"}}
  IN  IF stops = {} THEN aURL
      ELSE SubSeq(aURL, 1, (CHOOSE i \in stops : \A j \in stops : i <= j) - 1)

\* The clock in minutes.
nowMinutes == now * MinutesPerHour

\* Mutant of chk4: a reading that yields no entry leaves the list in memory
\* as it was.
chk4KeepsList(aURL, aHostsFilename) ==
  LET unchanged ==
        [res |-> FALSE, avoid |-> ssAvoidJSsites, need |-> ssNeedJSsites]
      isAvoid == HasSuffix(aHostsFilename, <<defaultHostsAvoidJS>>)
      isNeed == HasSuffix(aHostsFilename, <<defaultHostsNeedJS>>)
      hosts == IF isAvoid THEN ssAvoidJSsites ELSE ssNeedJSsites
      needle == hostOrPath(aURL)
      reads == Len(hosts.list) = 0 \/ nowMinutes > hosts.nextTime
      found == readListFile(aHostsFilename)
      read == [nextTime |-> IF 0 < ssReadWaitTime
                            THEN nowMinutes + ssReadWaitTime
                            ELSE hosts.nextTime,
               list |-> IF Len(found) = 0 THEN hosts.list ELSE found]
      after == IF reads THEN read ELSE hosts
  IN  IF aHostsFilename = NoPath \/ Len(aURL) = 0 THEN unchanged
      ELSE IF ~isAvoid /\ ~isNeed THEN unchanged
      ELSE IF Len(needle) = 0 THEN unchanged
      ELSE [res |-> /\ Len(after.list) # 0
                    /\ containsHost(ToLower(needle), after.list),
            avoid |-> IF isAvoid THEN after ELSE ssAvoidJSsites,
            need |-> IF isAvoid THEN ssNeedJSsites ELSE after]

\* Mutant of chk4: the list is read again as soon as its time is reached.
chk4ReadsAtDeadline(aURL, aHostsFilename) ==
  LET unchanged ==
        [res |-> FALSE, avoid |-> ssAvoidJSsites, need |-> ssNeedJSsites]
      isAvoid == HasSuffix(aHostsFilename, <<defaultHostsAvoidJS>>)
      isNeed == HasSuffix(aHostsFilename, <<defaultHostsNeedJS>>)
      hosts == IF isAvoid THEN ssAvoidJSsites ELSE ssNeedJSsites
      needle == hostOrPath(aURL)
      reads == Len(hosts.list) = 0 \/ nowMinutes >= hosts.nextTime
      read == [nextTime |-> IF 0 < ssReadWaitTime
                            THEN nowMinutes + ssReadWaitTime
                            ELSE hosts.nextTime,
               list |-> readListFile(aHostsFilename)]
      after == IF reads THEN read ELSE hosts
  IN  IF aHostsFilename = NoPath \/ Len(aURL) = 0 THEN unchanged
      ELSE IF ~isAvoid /\ ~isNeed THEN unchanged
      ELSE IF Len(needle) = 0 THEN unchanged
      ELSE [res |-> /\ Len(after.list) # 0
                    /\ containsHost(ToLower(needle), after.list),
            avoid |-> IF isAvoid THEN after ELSE ssAvoidJSsites,
            need |-> IF isAvoid THEN ssNeedJSsites ELSE after]

\* chk4(): whether the host of aURL is on the list that aHostsFilename
\* names, and the two lists in memory afterwards.  The list is read again
\* when it is empty or its time has come.
chk4(aURL, aHostsFilename) ==
  LET unchanged ==
        [res |-> FALSE, avoid |-> ssAvoidJSsites, need |-> ssNeedJSsites]
      isAvoid == HasSuffix(aHostsFilename, <<defaultHostsAvoidJS>>)
      isNeed == HasSuffix(aHostsFilename, <<defaultHostsNeedJS>>)
      hosts == IF isAvoid THEN ssAvoidJSsites ELSE ssNeedJSsites
      needle == hostOrPath(aURL)
      reads == Len(hosts.list) = 0 \/ nowMinutes > hosts.nextTime
      read == [nextTime |-> IF 0 < ssReadWaitTime
                            THEN nowMinutes + ssReadWaitTime
                            ELSE hosts.nextTime,
               list |-> readListFile(aHostsFilename)]
      after == IF reads THEN read ELSE hosts
  IN  IF aHostsFilename = NoPath \/ Len(aURL) = 0 THEN unchanged
      ELSE IF ~isAvoid /\ ~isNeed THEN unchanged
      ELSE IF Len(needle) = 0 THEN unchanged
      ELSE [res |-> /\ Len(after.list) # 0
                    /\ containsHost(ToLower(needle), after.list),
            avoid |-> IF isAvoid THEN after ELSE ssAvoidJSsites,
            need |-> IF isAvoid THEN ssNeedJSsites ELSE after]

\* Mutant of configChrome: the lists are asked, the global option decides.
configChromeGlobal(aURL) ==
  LET c == chk4(aURL, IF ssOptions.JavaScript THEN ssOptions.HostsAvoidJSfile
                      ELSE ssOptions.HostsNeedJSfile)
  IN  [enableJS |-> ssOptions.JavaScript, avoid |-> c.avoid, need |-> c.need]

\* The head of configChrome(): whether JavaScript is enabled for aURL, and
\* the two lists in memory afterwards.
configChrome(aURL) ==
  IF ssOptions.JavaScript
  THEN LET c == chk4(aURL, ssOptions.HostsAvoidJSfile)
       IN  [enableJS |-> ~c.res, avoid |-> c.avoid, need |-> c.need]
  ELSE LET c == chk4(aURL, ssOptions.HostsNeedJSfile)
       IN  [enableJS |-> c.res, avoid |-> c.avoid, need |-> c.need]

\* -------------------------------------------------------- public functions

\* What one CreateImage call returns and does.
Ret(name, err, fs, via, gets, renders) ==
  [name |-> name, err |-> err, files |-> fs, via |-> via,
   gets |-> gets, renders |-> renders]

\* The tail of CreateImage(): the "no data" test and the write.
storeImage(fName, imageData, response, w, via, gets, renders) ==
  IF imageData.len = 0 /\ response.nil
  THEN Ret(Empty, "ErrNoData", files, via, gets, renders)
  ELSE LET wr == writeFile(fName, imageData, response, w)
       IN  IF wr.err # "nil"
           THEN Ret(Empty, wr.err, wr.files, via, gets, renders)
           ELSE Ret(fName, "nil", wr.files, via, gets, renders)

\* Mutant of cachedName: the file of the other format is accepted whatever
\* AcceptOther says.
cachedNameAnyFormat(aURL) ==
  LET ext == ssImageTypes(MaxQuality > ssOptions.ImageQuality)
      result == SanitisedUrl[aURL] \o Dot \o ext
      result2 == SanitisedUrl[aURL] \o Dot \o OtherType(ext)
  IN  IF exists(result) THEN result
      ELSE IF exists(result2) THEN result2
      ELSE Empty

\* The head of CreateImage(): the name of the cached file that satisfies the
\* call, or "" when there is none.  The file of the configured format is
\* looked for first, the one of the other format only with AcceptOther.
cachedName(aURL) ==
  LET ext == ssImageTypes(MaxQuality > ssOptions.ImageQuality)
      result == SanitisedUrl[aURL] \o Dot \o ext
      result2 == SanitisedUrl[aURL] \o Dot \o OtherType(ext)
  IN  IF exists(result) THEN result
      ELSE IF ssOptions.AcceptOther /\ exists(result2) THEN result2
      ELSE Empty

\* CreateImage(aURL), with the behaviour `in` of its collaborators.
\* sanitise(aURL) and the lower-cased fileExt(aURL) are read from their
\* tables SanitisedUrl and LowerExtOfUrl.
CreateImage(aURL, in) ==
  IF Len(ssOptions.ImageDir) = 0
  THEN Ret(Empty, "ErrImageDir", files, "config", 0, 0)
  ELSE
    LET ext == ssImageTypes(MaxQuality > ssOptions.ImageQuality)
        sanitised == SanitisedUrl[aURL]
        result == sanitised \o Dot \o ext
        cached == cachedName(aURL)
        uext == LowerExtOfUrl[aURL]
    IN  IF cached # Empty THEN Ret(cached, "nil", files, "cache", 0, 0)
        ELSE IF uext \in ExcludedExts
        THEN Ret(Empty, "ErrExcluded", files, "excluded", 0, 0)
        ELSE IF uext \in ImageExts
        THEN IF ~in.g.ok
             THEN Ret(Empty, "ErrGet", files, "get", 1, 0)
             ELSE storeImage(sanitised \o uext, NoBytes,
                             [nil |-> FALSE, clen |-> in.g.clen],
                             in.w, "get", 1, 0)
        ELSE LET gen == generateImage(in.r)
             IN  IF gen.panicked       \* recovered by CreateImage's own defer
                 THEN Ret(Empty, "nil", files, "render", 0, 1)
                 ELSE IF gen.err # "nil"
                 THEN Ret(Empty, gen.err, files, "render", 0, 1)
                 ELSE IF in.r.expired  \* case <-ctx.Done()
                 THEN Ret(Empty, "ErrDeadline", files, "render", 0, 1)
                 ELSE storeImage(result, gen.img, NoResponse,
                                 in.w, "render", 0, 1)

\* Whether a render with behaviour r gets as far as writeFile().
reachesWrite(r) ==
  LET gen == generateImage(r)
  IN  ~gen.panicked /\ gen.err = "nil" /\ ~r.expired /\ 0 < gen.img.len

\* The behaviours of the collaborators that a call for aURL can meet in the
\* current state, drawn from the sets S.r, S.g and S.w: only those of the
\* collaborators the call gets to.
InputsFor(aURL, S) ==
  LET via == CreateImage(aURL, NoInput).via
  IN  IF via = "get"
      THEN UNION { { [NoInput EXCEPT !.g = g, !.w = w] :
                       w \in IF g.ok THEN S.w ELSE {AllFine} } :
                   g \in S.g }
      ELSE IF via = "render"
      THEN UNION { { [NoInput EXCEPT !.r = r, !.w = w] :
                       w \in IF reachesWrite(r) THEN S.w ELSE {AllFine} } :
                   r \in S.r }
      ELSE {NoInput}

\* Every URL with every behaviour of the collaborators.
FullScope == [urls |-> Urls, r |-> RenderIns, g |-> GetIns, w |-> WriteIns]

\* The pipeline as a whole: every URL with every behaviour of the
\* collaborators (it is run with the default max-age, under which the time
\* of day decides nothing, switching only the overwrite flag).
RenderScope == FullScope

\* The cache policy: the web page, with a backend that delivers a plausible
\* image, a small one, one of exactly the threshold size, or fails.
CacheScope ==
  [urls |-> {UrlPage},
   r |-> {r \in RenderIns : r.panic = "none" /\ ~r.expired /\ ~r.raw.nil
                             /\ (r.err = "nil" <=> 0 < r.raw.n)},
   g |-> {NoGet},
   w |-> {AllFine}]

\* Direct downloads: the document and the image URL.
DirectScope ==
  [urls |-> {UrlPdf, UrlPng}, r |-> {NoRender}, g |-> GetIns, w |-> WriteIns]

\* The host lists: the web page, rendered by a backend that fails, so that
\* no file of the cache is written.
HostsScope ==
  [urls |-> {UrlPage},
   r |-> {[err |-> "ErrBackend", panic |-> "none", raw |-> NilRaw,
           expired |-> FALSE]},
   g |-> {NoGet},
   w |-> {AllFine}]

\* ------------------------------------------------------ concurrent callers

\* Two callers ask for the image of one page at the same time; the page is
\* none of Urls, its file none of Names.
Callers == {"A", "B"}

Other(c) == CHOOSE d \in Callers : d # c

\* The lengths of the images their renders give.
RaceLens == {MinSize + 1, MinSize + 2}

\* Nothing has happened yet: no caller has called, the file is not there.
\* The content of the file is a sequence of segments, bytes `from` (counted
\* from 0) up to but not `to`, each written by one caller; `log` is the
\* order in which the callers opened and wrote the file.
NoRace ==
  [pc |-> [c \in Callers |-> "idle"], len |-> [c \in Callers |-> 0],
   there |-> FALSE, content |-> <<>>, mtime |-> 0, log |-> <<>>]

\* The length of a file with that content.
Size(aContent) ==
  IF aContent = <<>> THEN 0 ELSE aContent[Len(aContent)].to

\* exists() for the file of the two callers.
raceExists ==
  IF ~race.there THEN FALSE
  ELSE IF MinSize > Size(race.content) THEN FALSE
  ELSE IF ssOptions.ImageOverwrite THEN FALSE
  ELSE IF 0 < ssOptions.ImageAge
       THEN now < race.mtime + ssOptions.ImageAge
  ELSE TRUE

\* Mutant of openFile: the file is opened without O_TRUNC.
openFileKeeps(aContent) == aContent

\* os.OpenFile(O_WRONLY|O_CREATE|O_TRUNC): the file is there and empty.
openFile(aContent) == <<>>

\* file.Write(aData) through a descriptor of its own, opened at offset 0:
\* the first aLen bytes of the file are the caller's, what the file holds
\* beyond them stays.
fileWrite(aContent, aCaller, aLen) ==
  LET beyond == SelectSeq(aContent, LAMBDA s : s.to > aLen)
  IN  <<[by |-> aCaller, from |-> 0, to |-> aLen]>>
      \o [i \in 1..Len(beyond) |->
            [beyond[i] EXCEPT !.from = IF @ < aLen THEN aLen ELSE @]]

\* ----------------------------------------------------------------- actions

\* The state after the package was initialised in a working directory
\* without host list files.
Init ==
  /\ listFiles = [p \in ListPaths |-> NoListFile]
  /\ ssOptions =
       [AcceptOther |-> TRUE, CertErrors |-> FALSE, Cookies |-> FALSE,
        HostsAvoidJSfile |-> setHosts4JS(<<".">>, defaultHostsAvoidJS),
        HostsNeedJSfile |-> setHosts4JS(<<".">>, defaultHostsNeedJS),
        ImageAge |-> 0, ImageDir |-> TempDir,
        ImageHeight |-> defaultImageHeight, ImageOverwrite |-> FALSE,
        ImageQuality |-> DefaultQuality, ImageScale |-> 0,
        ImageWidth |-> defaultImageWidth, JavaScript |-> FALSE,
        MaxProcessTime |-> DefaultProcessTime, Mobile |-> FALSE,
        Platform |-> defaultPlatform, Scrollbars |-> FALSE,
        UserAgent |-> DefaultAgent]
  /\ files = [n \in Names |-> NoFile]
  /\ now = 0
  /\ last = NoCall
  /\ ssAvoidJSsites = NoList
  /\ ssNeedJSsites = NoList
  /\ ssReadWaitTime = DefaultReadWaitTime
  /\ race = NoRace

\* A caller calls CreateImage(aURL) and observes its two results.  A call
\* that gets to generateImage() consults the host lists in configChrome().
Call(aURL, in) ==
  LET r == CreateImage(aURL, in)
      cfg == configChrome(aURL)
      ext == ssImageTypes(MaxQuality > ssOptions.ImageQuality)
      prev == IF last.url = aURL /\ last.err = "nil"
                 /\ last.renders + last.gets = 1
              THEN last.name ELSE Empty
  IN  /\ files' = r.files
      /\ last' = [url |-> aURL, name |-> r.name, err |-> r.err, via |-> r.via,
                  gets |-> r.gets, renders |-> r.renders, in |-> in,
                  hit |-> exists(SanitisedUrl[aURL] \o Dot \o ext),
                  hit2 |-> exists(SanitisedUrl[aURL] \o Dot \o OtherType(ext)),
                  changed |-> r.files # files,
                  prev |-> prev,
                  prevSize |-> IF prev = Empty THEN 0 ELSE files[prev].size,
                  at |-> now,
                  js |-> r.renders = 1 /\ cfg.enableJS,
                  lists |-> [avoid |-> ssAvoidJSsites, need |-> ssNeedJSsites],
                  arg |-> <<>>, was |-> <<>>, out |-> <<>>]
      /\ ssAvoidJSsites' = IF r.renders = 1 THEN cfg.avoid ELSE ssAvoidJSsites
      /\ ssNeedJSsites' = IF r.renders = 1 THEN cfg.need ELSE ssNeedJSsites
      /\ UNCHANGED <<race, ssOptions, now, ssReadWaitTime, listFiles>>

DoCreateImage(S) == \E u \in S.urls : \E in \in InputsFor(u, S) : Call(u, in)

\* What the setters store for their arguments.  SetImageAge(): a value that
\* is not positive becomes 0.
storedImageAge(aMaxAge) == IF 0 < aMaxAge THEN aMaxAge ELSE 0

\* filepath.Abs on a directory name: a relative name is put under the
\* working directory, a trailing separator is cleaned away.
absDir(aDirectory) ==
  LET full == IF Head(aDirectory) = "/" THEN aDirectory
              ELSE <<"/","c","w","d","/">> \o aDirectory
  IN  IF Len(full) > 1 /\ full[Len(full)] = "/"
      THEN SubSeq(full, 1, Len(full) - 1) ELSE full

\* SetImageDir(): an empty name becomes the temp directory; the name is made
\* absolute.
storedImageDir(aDirectory) ==
  LET given == TrimSpace(aDirectory)
  IN  absDir(IF Len(given) = 0 THEN TempDir ELSE given)

\* SetImageHeight(): a value that is not positive becomes 0.
storedImageHeight(aHeight) == IF 0 < aHeight THEN aHeight ELSE 0

\* Mutant of storedImageQuality: the value is stored as it is.
storedImageQualityAsIs(aQuality) == aQuality

\* SetImageQuality(): a value outside 1..100 becomes 100.
storedImageQuality(aQuality) ==
  IF 0 < aQuality /\ MaxQuality >= aQuality THEN aQuality ELSE MaxQuality

\* SetImageScale(): a factor that is not positive becomes 0.  The factors of
\* the model are whole numbers.
storedImageScale(aFactor) == IF 0 < aFactor THEN aFactor ELSE 0

\* SetImageWidth(): a value that is not positive becomes the default width.
storedImageWidth(aWidth) == IF 0 < aWidth THEN aWidth ELSE defaultImageWidth

\* SetMaxProcessTime(): a value that is not positive becomes 32.
storedMaxProcessTime(aProcessTime) ==
  IF 0 < aProcessTime THEN aProcessTime ELSE DefaultProcessTime

\* SetPlatform(), SetUserAgent(): the trimmed text, or the default when
\* nothing is left.
storedPlatform(aPlatform) ==
  IF 0 < Len(TrimSpace(aPlatform)) THEN TrimSpace(aPlatform)
  ELSE defaultPlatform

storedUserAgent(anAgent) ==
  IF 0 < Len(TrimSpace(anAgent)) THEN TrimSpace(anAgent) ELSE DefaultAgent

\* A setter stores one option.
SetOption(aField, aValue) ==
  /\ ssOptions' = [ssOptions EXCEPT ![aField] = aValue]
  /\ last' = NoCall
  /\ UNCHANGED <<race, files, now, hostVars>>

SetAcceptOther(doUse) == SetOption("AcceptOther", doUse)

DoSetAcceptOther == \E b \in BOOLEAN : SetAcceptOther(b)

\* SetAvoidJSfile(), SetNeedJSfile(): the file name is resolved and stored;
\* the lists in memory are not touched.
SetAvoidJSfile(aFilename) ==
  /\ ssOptions' = [ssOptions EXCEPT !.HostsAvoidJSfile =
                                       setHosts4JS(aFilename, defaultHostsAvoidJS)]
  /\ last' = [NoCall EXCEPT !.via = "SetAvoidJSfile",
                            !.was = ssOptions.HostsAvoidJSfile]
  /\ UNCHANGED <<race, files, now, hostVars>>

SetCertErrors(doIgnore) == SetOption("CertErrors", doIgnore)

DoSetCertErrors == \E b \in BOOLEAN : SetCertErrors(b)

SetCookies(doAllow) == SetOption("Cookies", doAllow)

DoSetCookies == \E b \in BOOLEAN : SetCookies(b)

SetImageAge(aMaxAge) == SetOption("ImageAge", storedImageAge(aMaxAge))

DoSetImageAge == \E a \in {-1, 0, 1, LargeAge} : SetImageAge(a)

SetImageDir(aDirectory) == SetOption("ImageDir", storedImageDir(aDirectory))

\* The directory names the model configures all name the temp directory:
\* the model keeps one cache directory.
ImageDirs == {<<>>, <<" ">>, TempDir, TempDir \o <<"/">>, <<" ">> \o TempDir}

DoSetImageDir == \E d \in ImageDirs : SetImageDir(d)

SetImageHeight(aHeight) == SetOption("ImageHeight", storedImageHeight(aHeight))

ImageHeights == {-1, 0, 100}

DoSetImageHeight == \E h \in ImageHeights : SetImageHeight(h)

SetImageOverwrite(doAllow) == SetOption("ImageOverwrite", doAllow)

DoSetImageOverwrite == \E b \in BOOLEAN : SetImageOverwrite(b)

SetImageQuality(aQuality) ==
  SetOption("ImageQuality", storedImageQuality(aQuality))

DoSetImageQuality ==
  \E q \in {0, DefaultQuality, MaxQuality, MaxQuality + 1} : SetImageQuality(q)

SetImageScale(aFactor) == SetOption("ImageScale", storedImageScale(aFactor))

ImageScales == {-1, 0, 2}

DoSetImageScale == \E f \in ImageScales : SetImageScale(f)

SetImageWidth(aWidth) == SetOption("ImageWidth", storedImageWidth(aWidth))

ImageWidths == {-1, 0, 100}

DoSetImageWidth == \E w \in ImageWidths : SetImageWidth(w)

SetJavaScript(doAllow) == SetOption("JavaScript", doAllow)

DoSetJavaScript == \E b \in BOOLEAN : SetJavaScript(b)

SetMaxProcessTime(aProcessTime) ==
  SetOption("MaxProcessTime", storedMaxProcessTime(aProcessTime))

ProcessTimes == {0, 10}

DoSetMaxProcessTime == \E t \in ProcessTimes : SetMaxProcessTime(t)

SetMobile(aMobile) == SetOption("Mobile", aMobile)

DoSetMobile == \E b \in BOOLEAN : SetMobile(b)

SetNeedJSfile(aFilename) ==
  /\ ssOptions' = [ssOptions EXCEPT !.HostsNeedJSfile =
                                       setHosts4JS(aFilename, defaultHostsNeedJS)]
  /\ last' = [NoCall EXCEPT !.via = "SetNeedJSfile",
                            !.was = ssOptions.HostsNeedJSfile]
  /\ UNCHANGED <<race, files, now, hostVars>>

\* The list file names a caller configures: none, a directory, a file.
AvoidJSfiles == {NoPath, <<"/etc">>, <<"/etc", defaultHostsAvoidJS>>}

NeedJSfiles == {NoPath, <<"/etc">>, <<"/etc", defaultHostsNeedJS>>}

DoSetAvoidJSfile == \E f \in AvoidJSfiles : SetAvoidJSfile(f)

DoSetNeedJSfile == \E f \in NeedJSfiles : SetNeedJSfile(f)

SetPlatform(aPlatform) == SetOption("Platform", storedPlatform(aPlatform))

Texts == {<<" ">>, <<" ","W"," ">>}

DoSetPlatform == \E t \in Texts : SetPlatform(t)

SetScrollbars(aScrollbar) == SetOption("Scrollbars", aScrollbar)

DoSetScrollbars == \E b \in BOOLEAN : SetScrollbars(b)

SetUserAgent(anAgent) == SetOption("UserAgent", storedUserAgent(anAgent))

DoSetUserAgent == \E t \in Texts : SetUserAgent(t)

\* SetReadWaitTime(): a value that is not positive becomes 1.
SetReadWaitTime(aMinutes) ==
  /\ ssReadWaitTime' = IF 0 < aMinutes THEN aMinutes ELSE DefaultReadWaitTime
  /\ last' = NoCall
  /\ UNCHANGED <<race, ssOptions, files, now, ssAvoidJSsites, ssNeedJSsites,
                 listFiles>>

DoSetReadWaitTime == \E t \in {0, MinutesPerHour} : SetReadWaitTime(t)

\* The options after sso.Do(): nothing changes when sso equals the current
\* options; otherwise every field is stored, most of them by their setter.
DoOptions(sso) ==
  IF sso = ssOptions THEN ssOptions
  ELSE [AcceptOther |-> sso.AcceptOther,
        CertErrors |-> sso.CertErrors,
        Cookies |-> sso.Cookies,
        HostsAvoidJSfile |->
          setHosts4JS(sso.HostsAvoidJSfile, defaultHostsAvoidJS),
        HostsNeedJSfile |->
          setHosts4JS(sso.HostsNeedJSfile, defaultHostsNeedJS),
        ImageAge |-> storedImageAge(sso.ImageAge),
        ImageDir |-> storedImageDir(sso.ImageDir),
        ImageHeight |-> storedImageHeight(sso.ImageHeight),
        ImageOverwrite |-> sso.ImageOverwrite,
        ImageQuality |-> storedImageQuality(sso.ImageQuality),
        ImageScale |-> storedImageScale(sso.ImageScale),
        ImageWidth |-> storedImageWidth(sso.ImageWidth),
        JavaScript |-> sso.JavaScript,
        MaxProcessTime |-> storedMaxProcessTime(sso.MaxProcessTime),
        Mobile |-> sso.Mobile,
        Platform |-> storedPlatform(sso.Platform),
        Scrollbars |-> sso.Scrollbars,
        UserAgent |-> storedUserAgent(sso.UserAgent)]

\* A caller calls sso.Do() and gets Options(), the options now configured.
Do(sso) ==
  /\ ssOptions' = DoOptions(sso)
  /\ last' = [NoCall EXCEPT !.via = "Do", !.arg = sso, !.was = ssOptions]
  /\ UNCHANGED <<race, files, now, hostVars>>

\* The values a caller of Do() gives single fields.
FullValues ==
  [AcceptOther |-> BOOLEAN, CertErrors |-> BOOLEAN, Cookies |-> BOOLEAN,
   HostsAvoidJSfile |-> AvoidJSfiles, HostsNeedJSfile |-> NeedJSfiles,
   ImageAge |-> {-1, 1}, ImageDir |-> ImageDirs, ImageHeight |-> ImageHeights,
   ImageOverwrite |-> BOOLEAN,
   ImageQuality |-> {0, MaxQuality \div 2, MaxQuality + 1},
   ImageScale |-> ImageScales, ImageWidth |-> ImageWidths,
   JavaScript |-> BOOLEAN, MaxProcessTime |-> ProcessTimes,
   Mobile |-> BOOLEAN, Platform |-> Texts, Scrollbars |-> BOOLEAN,
   UserAgent |-> Texts]

\* The configuration slice: the numeric fields with a validating setter and
\* the list file of the avoid policy.
ConfigFields ==
  {"HostsAvoidJSfile", "ImageHeight", "ImageQuality", "ImageScale",
   "ImageWidth"}

ConfigValues == [f \in ConfigFields |-> FullValues[f]]

\* Options() with at most one field set to another value.
OneChanged(aValues) ==
  {ssOptions}
  \cup UNION { {[ssOptions EXCEPT ![f] = v] : v \in aValues[f]} :
                 f \in DOMAIN aValues }

DoDo(aValues) == \E sso \in OneChanged(aValues) : Do(sso)

\* An hour passes.
Tick ==
  /\ now < MaxTime
  /\ now' = now + 1
  /\ UNCHANGED <<race, ssOptions, files, last, hostVars>>

\* A caller calls CreateImage(): no usable file is in the cache, and the
\* render gives an image of aLen bytes.
RaceBegin(c, aLen) ==
  /\ race.pc[c] = "idle"
  /\ ~raceExists
  /\ race' = [race EXCEPT !.pc[c] = "rendered", !.len[c] = aLen]
  /\ last' = NoCall
  /\ UNCHANGED <<ssOptions, files, now, hostVars>>

\* Its writeFile() opens the file.
RaceOpen(c) ==
  /\ race.pc[c] = "rendered"
  /\ race' = [race EXCEPT !.pc[c] = "opened", !.there = TRUE,
                          !.content = openFile(@), !.mtime = now,
                          !.log = Append(@, <<"open", c>>)]
  /\ last' = NoCall
  /\ UNCHANGED <<ssOptions, files, now, hostVars>>

\* Its writeFile() writes the image, and CreateImage() returns the name.
RaceWrite(c) ==
  /\ race.pc[c] = "opened"
  /\ race' = [race EXCEPT !.pc[c] = "done",
                          !.content = fileWrite(@, c, race.len[c]),
                          !.mtime = now,
                          !.log = Append(@, <<"write", c>>)]
  /\ last' = NoCall
  /\ UNCHANGED <<ssOptions, files, now, hostVars>>

DoRaceBegin == \E c \in Callers : \E n \in RaceLens : RaceBegin(c, n)

DoRaceOpen == \E c \in Callers : RaceOpen(c)

DoRaceWrite == \E c \in Callers : RaceWrite(c)

\* cropScale() is called on its own with a decoded image of some size.
CropScale(aSize) ==
  /\ last' = [NoCall EXCEPT !.via = "cropScale", !.arg = aSize,
                            !.out = cropScale(aSize)]
  /\ UNCHANGED <<race, ssOptions, files, now, hostVars>>

\* The sides of the images: a pixel, the width and height the setters of
\* the model configure and the default ones, each with its neighbours, and
\* a large one.
ImageSides ==
  {1, 99, 100, 101, defaultImageHeight, defaultImageWidth, 2000}

DoCropScale ==
  \E x \in ImageSides : \E y \in ImageSides : CropScale([X |-> x, Y |-> y])

\* writeFile() is called on its own, as Test_writeFile does.
WriteFile(aFilename, aData, aResponse, w) ==
  LET wr == writeFile(aFilename, aData, aResponse, w)
  IN  /\ files' = wr.files
      /\ last' = [NoCall EXCEPT
                    !.via = "writeFile",
                    !.arg = <<aFilename, aData, aResponse, w>>,
                    !.was = IF Len(aFilename) = 0 THEN NoFile
                            ELSE files[aFilename],
                    !.out = <<wr.err>>]
      /\ UNCHANGED <<race, ssOptions, now, hostVars>>

\* What writeFile() is given: no name or the name of the page's image; no
\* bytes or an image; no response, or one with a body of unknown, of no or
\* of some length.
WriteNames == {Empty, SanitisedUrl[UrlPage] \o Dot \o Jpeg}

WriteDatas == {NoBytes, [len |-> MinSize + 1, kind |-> "enc", skip |-> 0]}

WriteResponses ==
  {NoResponse} \cup [nil : {FALSE}, clen : {-1, 0, MinSize}]

DoWriteFile ==
  \E n \in WriteNames : \E d \in WriteDatas : \E r \in WriteResponses :
    \E w \in WriteIns : WriteFile(n, d, r, w)

\* chk4() is called on its own, as Test_chk4 does.
Chk4(aURL, aHostsFilename) ==
  LET c == chk4(aURL, aHostsFilename)
  IN  /\ last' = [NoCall EXCEPT
                    !.via = "chk4", !.arg = <<aURL, aHostsFilename>>,
                    !.out = <<c.res>>, !.at = now,
                    !.lists = [avoid |-> ssAvoidJSsites,
                               need |-> ssNeedJSsites]]
      /\ ssAvoidJSsites' = c.avoid
      /\ ssNeedJSsites' = c.need
      /\ UNCHANGED <<race, ssOptions, files, now, ssReadWaitTime, listFiles>>

\* The URLs chk4() is asked about: none, the page, the page in capitals, a
\* path that is an entry of ListP, and one that is shorter than the entry.
Chk4Urls ==
  {Empty, UrlPage, <<"A","/","P">>, <<"/","p">>, <<"p">>}

\* The list files chk4() is given: none, the two in /etc, and a file that
\* is named like neither policy.
Chk4Files ==
  {NoPath, <<"/etc", "other.list">>,
   <<"/etc", defaultHostsAvoidJS>>, <<"/etc", defaultHostsNeedJS>>}

DoChk4 == \E u \in Chk4Urls : \E f \in Chk4Files : Chk4(u, f)

\* fileExt() is called on its own, as Test_fileExt does.
FileExt(aURL) ==
  /\ last' = [NoCall EXCEPT !.via = "fileExt", !.arg = aURL,
                            !.out = fileExt(aURL)]
  /\ UNCHANGED <<race, ssOptions, files, now, hostVars>>

\* The texts fileExt() is given: a letter, the dot, the two characters that
\* begin a query or a fragment, and the path separator.
ExtChars == {"a", ".", "?", "#", "/"}

ExtUrls == UNION { [1..n -> ExtChars] : n \in 0..MaxUrlLen }

DoFileExt == \E u \in ExtUrls : FileExt(u)

\* Somebody else writes a host list file, or removes one.
EnvWriteList(aPath, aLines) ==
  /\ listFiles[aPath] # [ok |-> TRUE, lines |-> aLines]
  /\ listFiles' = [listFiles EXCEPT ![aPath] = [ok |-> TRUE, lines |-> aLines]]
  /\ last' = NoCall
  /\ UNCHANGED <<race, ssOptions, files, now, ssAvoidJSsites, ssNeedJSsites,
                 ssReadWaitTime>>

EnvRemoveList(aPath) ==
  /\ listFiles[aPath].ok
  /\ listFiles' = [listFiles EXCEPT ![aPath] = NoListFile]
  /\ last' = NoCall
  /\ UNCHANGED <<race, ssOptions, files, now, ssAvoidJSsites, ssNeedJSsites,
                 ssReadWaitTime>>

DoEnvWriteList(aPaths, aContents) ==
  \E p \in aPaths : \E c \in aContents : EnvWriteList(p, c)

DoEnvRemoveList(aPaths) == \E p \in aPaths : EnvRemoveList(p)

\* Somebody else creates a directory where a cache file would go.
EnvMkdir ==
  \E n \in Names :
    /\ files[n].kind = "none"
    /\ \A m \in Names : files[m].kind # "dir"
    /\ files' = [files EXCEPT ![n] = DirFile]
    /\ last' = NoCall
    /\ UNCHANGED <<race, ssOptions, now, hostVars>>

Next ==
  \/ DoCreateImage(FullScope)
  \/ DoSetAcceptOther
  \/ DoSetAvoidJSfile
  \/ DoSetCertErrors
  \/ DoSetCookies
  \/ DoSetImageAge
  \/ DoSetImageDir
  \/ DoSetImageHeight
  \/ DoSetImageOverwrite
  \/ DoSetImageQuality
  \/ DoSetImageScale
  \/ DoSetImageWidth
  \/ DoSetJavaScript
  \/ DoSetMaxProcessTime
  \/ DoSetMobile
  \/ DoSetNeedJSfile
  \/ DoSetPlatform
  \/ DoSetReadWaitTime
  \/ DoSetScrollbars
  \/ DoSetUserAgent
  \/ DoDo(FullValues)
  \/ Tick
  \/ EnvMkdir
  \/ DoEnvWriteList(ListPaths, ListContents)
  \/ DoEnvRemoveList(ListPaths)
  \/ DoFileExt
  \/ DoChk4
  \/ DoWriteFile
  \/ DoCropScale
  \/ DoRaceBegin
  \/ DoRaceOpen
  \/ DoRaceWrite

Spec == Init /\ [][Next]_vars

\* The slices of Spec that are model-checked: each takes a part of the
\* actions and of the inputs, so each of its behaviours is one of Spec.
NextRender ==
  \/ DoCreateImage(RenderScope)
  \/ DoSetImageOverwrite
  \/ EnvMkdir

SpecRender == Init /\ [][NextRender]_vars

NextCache ==
  \/ DoCreateImage(CacheScope)
  \/ DoSetImageAge
  \/ DoSetImageQuality
  \/ DoSetAcceptOther
  \/ DoSetImageOverwrite
  \/ Tick
  \/ EnvMkdir

SpecCache == Init /\ [][NextCache]_vars

NextDirect ==
  \/ DoCreateImage(DirectScope)
  \/ DoSetImageAge
  \/ DoSetImageQuality
  \/ DoSetAcceptOther
  \/ DoSetImageOverwrite
  \/ Tick
  \/ EnvMkdir

SpecDirect == Init /\ [][NextDirect]_vars

\* The list files in /etc.
EtcPaths == {<<"/etc", n>> : n \in {defaultHostsAvoidJS, defaultHostsNeedJS}}

\* Switching list files: render calls while the list files of both policies
\* are written in both directories and the options are pointed at them.
NextSwitch ==
  \/ DoCreateImage(HostsScope)
  \/ DoSetJavaScript
  \/ DoSetAvoidJSfile
  \/ DoSetNeedJSfile
  \/ DoEnvWriteList(EtcPaths, {ListP})
  \/ DoEnvWriteList(ListPaths \ EtcPaths, {ListX})
  \/ Tick

SpecSwitch == Init /\ [][NextSwitch]_vars

\* Queries of the host lists: chk4() on its own while the list files in
\* /etc are written and removed and the time passes.
NextQuery ==
  \/ DoChk4
  \/ DoEnvWriteList(EtcPaths, {ListP, ListMixed})
  \/ DoEnvRemoveList(EtcPaths)
  \/ Tick

SpecQuery == Init /\ [][NextQuery]_vars

\* Writing files: writeFile() on its own, while a directory may get in the
\* way of the file.
NextWrite ==
  \/ DoWriteFile
  \/ EnvMkdir

SpecWrite == Init /\ [][NextWrite]_vars

\* The size of the image: cropScale() on its own under every width and
\* height the setters store.
NextCrop ==
  \/ DoCropScale
  \/ DoSetImageHeight
  \/ DoSetImageWidth

SpecCrop == Init /\ [][NextCrop]_vars

\* Two callers at once, while the time passes.
NextRace ==
  \/ DoRaceBegin
  \/ DoRaceOpen
  \/ DoRaceWrite
  \/ Tick

SpecRace == Init /\ [][NextRace]_vars

\* The extension of a URL.
NextExt == DoFileExt

SpecExt == Init /\ [][NextExt]_vars

\* The host lists: render calls under both policies while the list files
\* in /etc come, change and go and the time passes.
NextHosts ==
  \/ DoCreateImage(HostsScope)
  \/ DoSetJavaScript
  \/ DoSetAvoidJSfile
  \/ DoSetNeedJSfile
  \/ DoSetReadWaitTime
  \/ DoEnvWriteList(EtcPaths, {ListP, ListComment})
  \/ DoEnvRemoveList(EtcPaths)
  \/ Tick

SpecHosts == Init /\ [][NextHosts]_vars

\* The configuration: the validating setters and Do(), with the list file
\* of the avoid policy coming and going in both directories.
AvoidPaths == {<<d, defaultHostsAvoidJS>> : d \in ListDirs}

NextConfig ==
  \/ DoSetImageHeight
  \/ DoSetImageQuality
  \/ DoSetImageScale
  \/ DoSetImageWidth
  \/ DoSetAvoidJSfile
  \/ DoDo(ConfigValues)
  \/ DoEnvWriteList(AvoidPaths, {ListP})
  \/ DoEnvRemoveList(AvoidPaths)

SpecConfig == Init /\ [][NextConfig]_vars

\* ------------------------------------------------------------------ claims
\* `last` is the latest call as its caller saw it; it is set by the call and
\* kept while only time passes, so in a state where last.url # "" the options
\* are those the call ran with and `files` is what the call left behind.

Called == last.url # Empty

\* The file names of the configured format and of the other format for the
\* URL of the latest call.
PrimaryName ==
  SanitisedUrl[last.url] \o Dot
    \o ssImageTypes(MaxQuality > ssOptions.ImageQuality)

OtherName ==
  SanitisedUrl[last.url] \o Dot
    \o OtherType(ssImageTypes(MaxQuality > ssOptions.ImageQuality))

\* Whether the latest call found a usable cached file when it began.
FoundCached == last.hit \/ (ssOptions.AcceptOther /\ last.hit2)

\* Whether the capture of the latest call normalises to plausible bytes.
Plausible == ~last.in.r.raw.nil /\ MinSize < cleanupOutput(last.in.r.raw).len

\* C1: every CreateImage call returns either a non-empty file name with no
\* error or an empty file name with an error, on every path: excluded type,
\* network, timeout, no data, write error, recovered fault.
C1_ResultsConsistent ==
  Called =>
    \/ last.name # Empty /\ last.err = "nil"
    \/ last.name = Empty /\ last.err # "nil"

\* C1 witness: a download whose write failed ended with "" and an error.
C1_Witness ==
  /\ last.via = "get" /\ last.in.g.ok /\ ~last.in.w.write
  /\ last.name = Empty /\ last.err = "ErrWrite"

\* C2 (as claimed): when a call that rendered and returned a file name is
\* followed by a call for the same URL, with a large max-age and overwrite
\* disabled, the second call returns the same name and does not render.
C2_SecondCallCached ==
  (Called /\ last.prev # Empty /\ ssOptions.ImageAge = LargeAge
     /\ ~ssOptions.ImageOverwrite)
  => (last.name = last.prev /\ last.renders = 0)

\* C3: a name returned without error is a bare file name, and a file is
\* there under it: the cached file the existence check accepted, untouched,
\* or the regular file this call wrote, with the length of what it obtained.
C3_ReturnedFileExists ==
  (Called /\ last.err = "nil") =>
    /\ last.name \in Names
    /\ \A i \in 1..Len(last.name) : last.name[i] # "/"
    /\ files[last.name].kind # "none"
    /\ IF last.via = "cache"
       THEN ~last.changed /\ FoundCached
       ELSE files[last.name] =
              [kind |-> "reg", mtime |-> last.at,
               size |-> IF last.via = "get" THEN last.in.g.clen
                        ELSE cleanupOutput(last.in.r.raw).len]

\* C3 witness: a render wrote the file whose name the call returned.
C3_Witness ==
  /\ last.via = "render" /\ last.err = "nil" /\ last.changed
  /\ last.name = PrimaryName /\ files[last.name].kind = "reg"

\* C4: a call for the URL with the excluded extension (".PDF", lower-cased
\* ".pdf") that finds no usable cached file fails with the "excluded
\* filename extension" error and an empty name, without a GET, without a
\* render and without touching a file.
C4_ExcludedFailsAtOnce ==
  (last.url = UrlPdf /\ ~FoundCached) =>
    /\ last.err = "ErrExcluded" /\ last.name = Empty
    /\ last.gets = 0 /\ last.renders = 0 /\ ~last.changed

\* C4 witness: such a call happened.
C4_Witness ==
  last.url = UrlPdf /\ ~FoundCached /\ last.err = "ErrExcluded"

\* C5 (as claimed): a call for the image URL that finds no usable cached file
\* performs a GET and, whenever the GET succeeds, stores the body and returns
\* sanitise(url) followed by the extension of the URL.  Stated here for the
\* calls that cannot fail for another reason: the response is not empty
\* (its content length is positive or, for a chunked or decompressed body,
\* unknown: -1) and the file can be opened and written.
C5_GetStored ==
  (last.url = UrlPng /\ ~FoundCached) =>
    /\ last.gets = 1 /\ last.renders = 0
    /\ LET target == sanitise(UrlPng) \o <<".","p","n","g">>
       IN  (/\ last.in.g.ok /\ last.in.g.clen # 0
            /\ last.in.w.open /\ last.in.w.write
            /\ files[target].kind # "dir")
           => /\ last.err = "nil" /\ last.name = target
              /\ files[target].kind = "reg"
              /\ files[target].mtime = last.at

\* C6: when the file of the configured format is not usable, AcceptOther is
\* set and the file of the other format is usable, the call returns the name
\* of the other format without a fetch; a usable file of the configured
\* format wins over it; and without AcceptOther no call is answered from the
\* cache with the name of the other format.
C6_AlternateFormat ==
  Called =>
    /\ (~last.hit /\ ssOptions.AcceptOther /\ last.hit2) =>
         /\ last.name = OtherName /\ last.err = "nil" /\ last.via = "cache"
         /\ last.gets = 0 /\ last.renders = 0 /\ ~last.changed
    /\ last.hit =>
         /\ last.name = PrimaryName /\ last.err = "nil" /\ last.via = "cache"
    /\ ~ssOptions.AcceptOther => last.name # OtherName

\* C6 witness: a call was answered with the file of the other format.
C6_Witness ==
  /\ Called /\ ~last.hit /\ last.hit2 /\ ssOptions.AcceptOther
  /\ last.name = OtherName /\ last.via = "cache"

C8_OverwriteNeverCached ==
  ssOptions.ImageOverwrite =>
    /\ \A n \in Names : files[n].kind = "reg" => ~exists(n)
    /\ (Called /\ files[PrimaryName].kind # "dir" /\ files[OtherName].kind # "dir")
         => last.via # "cache"

\* C8 witness: with overwrite enabled a call rendered again over a file of
\* plausible size that is within a large max-age.
C8_Witness ==
  /\ ssOptions.ImageOverwrite /\ ssOptions.ImageAge = LargeAge
  /\ last.prev # Empty /\ files[last.prev].size >= MinSize
  /\ last.via = "render" /\ last.renders = 1 /\ last.changed

\* C9 (as claimed): when the deadline has expired by the time the render
\* step returns, the call returns the timeout error, an empty name, and
\* writes nothing.
C9_ExpiredIsTimeout ==
  (last.via = "render" /\ last.in.r.expired) =>
    (last.err = "ErrDeadline" /\ last.name = Empty /\ ~last.changed)

\* C9 (amended): when the deadline has expired by the time the render step
\* returns, the call returns an empty name and an error and writes nothing,
\* even when the backend delivered plausible bytes; the error is the timeout
\* error whenever generateImage returned none of its own, which is the case
\* when the run reported no error or the timeout, or delivered plausible
\* bytes; otherwise it is the error of generateImage.
C9_ExpiredFails ==
  (last.via = "render" /\ last.in.r.expired) =>
    /\ last.name = Empty /\ last.err # "nil" /\ ~last.changed
    /\ (last.in.r.panic = "none"
          /\ (last.in.r.err \in {"nil", "ErrDeadline"} \/ Plausible))
         => last.err = "ErrDeadline"
    /\ (last.in.r.panic = "none" /\ last.in.r.err = "ErrBackend" /\ ~Plausible)
         => last.err = "ErrBackend"

\* C9 witness: the backend failed but delivered plausible bytes after the
\* deadline, and the call reported the timeout.
C9_Witness ==
  /\ last.via = "render" /\ last.in.r.expired /\ Plausible
  /\ last.in.r.err = "ErrBackend" /\ last.err = "ErrDeadline"

\* C10: a panic of the backend run is recovered inside generateImage and
\* turned into an error, which CreateImage returns with an empty name,
\* writing nothing.
C10_PanicBecomesError ==
  (last.via = "render" /\ last.in.r.panic = "run") =>
    /\ ~generateImage(last.in.r).panicked
    /\ last.name = Empty /\ last.err = "ErrReading" /\ ~last.changed

\* C10 witness: the run panicked and the call returned the made-up error.
C10_Witness ==
  last.via = "render" /\ last.in.r.panic = "run" /\ last.err = "ErrReading"

\* C13 (as claimed): on the render path a run that reports success but whose
\* normalised output has at most 4096 bytes makes CreateImage return an
\* error, and every file written by the render path is larger than 4096
\* bytes.
C13_OnlyPlausibleWritten ==
  (last.via = "render" /\ last.in.r.panic = "none") =>
    /\ (last.in.r.err = "nil" /\ ~Plausible) => (last.err # "nil" /\ ~last.changed)
    /\ (last.err = "nil" /\ last.changed) => files[last.name].size > MinSize

TargetName(aURL, opts) ==
  IF LowerExtOfUrl[aURL] \in ImageExts
  THEN SanitisedUrl[aURL] \o LowerExtOfUrl[aURL]
  ELSE SanitisedUrl[aURL] \o Dot \o ssImageTypes(MaxQuality > opts.ImageQuality)

C16_SecondDownloadCached ==
  (/\ last.url = UrlPng /\ last.prev # Empty /\ last.prevSize >= MinSize
   /\ ssOptions.ImageAge = LargeAge /\ ~ssOptions.ImageOverwrite)
  => (last.name = last.prev /\ last.gets = 0)

\* C18: a regular file of the minimum size minus one byte is never usable;
\* a regular file of exactly the minimum size is usable when overwrite is
\* disabled and the age condition holds, and a call that finds it under the
\* name of the configured format is answered with it.
C18_SizeBoundary ==
  /\ \A n \in Names :
       files[n].kind = "reg" =>
         /\ files[n].size = MinSize - 1 => ~exists(n)
         /\ (/\ files[n].size = MinSize /\ ~ssOptions.ImageOverwrite
             /\ (ssOptions.ImageAge = 0
                   \/ now < files[n].mtime + ssOptions.ImageAge))
            => exists(n)
  /\ (Called /\ last.prev # Empty /\ last.prevSize = MinSize - 1)
       => (last.via # "cache" \/ last.name # last.prev)
  /\ (/\ Called /\ last.prev # Empty /\ last.prevSize = MinSize
      /\ ~ssOptions.ImageOverwrite /\ ssOptions.ImageAge \in {0, LargeAge})
       => (last.via = "cache" /\ last.name = last.prev)

\* C18 witness: a call was answered with a cached file of exactly the
\* minimum size, while a file one byte smaller had been fetched again.
C18_Witness ==
  /\ last.via = "cache" /\ last.prevSize = MinSize
  /\ files[last.name].kind = "reg" /\ files[last.name].size = MinSize
  /\ \E n \in Names : files[n].kind = "reg" /\ files[n].size = MinSize - 1

\* C19 (as claimed): the existence check returns false for a path that does
\* not exist and for a path that is a directory.
C19_DirectoryNotUsable ==
  \A n \in Names : files[n].kind \in {"none", "dir"} => ~exists(n)

\* C19 (amended): the existence check returns false for a path that does not
\* exist, and true for a path that is a directory (or any other entry that
\* is no regular file), whatever the options say; so a directory at the
\* cache path of the configured format is reported as a usable cached
\* artifact: CreateImage returns its name without a fetch and leaves the
\* directory as it is.
C19_DirectoryUsable ==
  /\ \A n \in Names :
       /\ files[n].kind = "none" => ~exists(n)
       /\ files[n].kind = "dir" => exists(n)
  /\ (Called /\ files[PrimaryName].kind = "dir") =>
       /\ last.via = "cache" /\ last.name = PrimaryName /\ last.err = "nil"
       /\ last.renders = 0 /\ last.gets = 0 /\ ~last.changed

\* C19 witness: a call was answered with the name of a directory although
\* overwrite is enabled.
C19_Witness ==
  /\ Called /\ files[PrimaryName].kind = "dir" /\ ssOptions.ImageOverwrite
  /\ last.via = "cache" /\ last.name = PrimaryName

\* C20: with max-age A > 0, overwrite disabled and a regular file of at
\* least the minimum size, the existence check returns true exactly while
\* the current time is before modification time + A; a call that comes when
\* the file of the configured format has aged out (and no file of the other
\* format is accepted) fetches again, and rewrites the file when the fetch
\* succeeds.
C20_AgeWindow ==
  (0 < ssOptions.ImageAge /\ ~ssOptions.ImageOverwrite) =>
    /\ \A n \in Names :
         (files[n].kind = "reg" /\ files[n].size >= MinSize) =>
           (exists(n) <=> now < files[n].mtime + ssOptions.ImageAge)
    /\ (/\ Called /\ last.prev # Empty /\ last.prevSize >= MinSize
        /\ ~last.hit /\ ~(ssOptions.AcceptOther /\ last.hit2))
       => /\ last.renders = 1
          /\ last.err = "nil" =>
               (last.name = last.prev /\ files[last.name].mtime = last.at)

\* C20 witness: a file of plausible size that had aged out was rendered again
\* and rewritten an hour after it had been written.
C20_Witness ==
  /\ 0 < ssOptions.ImageAge /\ ~ssOptions.ImageOverwrite
  /\ last.prev # Empty /\ last.prevSize >= MinSize /\ ~last.hit
  /\ last.renders = 1 /\ last.err = "nil" /\ last.at > 0
  /\ files[last.name].mtime = last.at


FlagFields ==
  {"AcceptOther", "CertErrors", "Cookies", "ImageOverwrite", "JavaScript",
   "Mobile", "Scrollbars"}

InRange(aField, aValue) ==
  CASE aField \in FlagFields -> TRUE
    [] aField = "ImageAge" -> aValue >= 0
    [] aField = "ImageHeight" -> aValue >= 0
    [] aField = "ImageQuality" -> aValue \in 1..MaxQuality
    [] aField = "ImageScale" -> aValue >= 0
    [] aField = "ImageWidth" -> aValue > 0
    [] aField = "MaxProcessTime" -> aValue > 0
    [] OTHER -> FALSE

\* C12: when Do() is given the current options with some flags or numbers
\* changed to values in range, and every other field as it was, the options
\* afterwards are the ones given: no other field has changed.
C12_DoChangesOnlyGiven ==
  (/\ last.via = "Do"
   /\ \A f \in DOMAIN last.arg :
        last.arg[f] = last.was[f] \/ InRange(f, last.arg[f]))
  => ssOptions = last.arg


\* ---------------------------------------------------------------------------
\* The list that the last call consulted: its file, how it was in memory
\* before the call and how it is now.
Consulted ==
  IF ssOptions.JavaScript
  THEN [file |-> ssOptions.HostsAvoidJSfile, was |-> last.lists.avoid,
        is |-> ssAvoidJSsites]
  ELSE [file |-> ssOptions.HostsNeedJSfile, was |-> last.lists.need,
        is |-> ssNeedJSsites]

\* The last call asked a list that had entries in memory, its time to be
\* read again had come, and reading its file gave no entry.
EmptyReload ==
  /\ Called
  /\ last.renders = 1
  /\ Consulted.file # NoPath
  /\ Len(Consulted.was.list) # 0
  /\ last.at * MinutesPerHour > Consulted.was.nextTime
  /\ Len(readListFile(Consulted.file)) = 0

Fallback ==
  /\ last.via = "render"
  /\ last.in.r.panic = "none"
  /\ ~last.in.r.raw.nil
  /\ 0 < last.in.r.raw.n
  /\ MinSize >= last.in.r.raw.e

BeforeQuery(aURL) ==
  LET stops == {i \in 1..Len(aURL) : aURL[i] \in {"?", "#"}}
  IN  IF stops = {} THEN aURL
      ELSE SubSeq(aURL, 1, (CHOOSE i \in stops : \A j \in stops : i <= j) - 1)

\* The last ".ext" segment of a text: a dot and the word characters that
\* follow it up to the end, "" when the text does not end like that.
LastExt(aText) ==
  LET dots == {i \in 1..(Len(aText) - 1) :
                 /\ aText[i] = "."
                 /\ \A k \in (i + 1)..Len(aText) : aText[k] \in WordChars}
  IN  IF dots = {} THEN Empty
      ELSE SubSeq(aText, CHOOSE i \in dots : TRUE, Len(aText))

\* C22: fileExt() returns the last ".ext" segment of the part of the URL
\* before any '?' or '#', and "" when that part has none: a dot that occurs
\* only in the query or the fragment gives no extension.
C22_ExtBeforeQuery ==
  last.via = "fileExt" => last.out = LastExt(BeforeQuery(last.arg))


\* ---------------------------------------------------------------------------
\* The last thing that happened was a setter pointing a policy at another
\* list file, both files being valid ones.
Switched ==
  \/ /\ last.via = "SetAvoidJSfile"
     /\ last.was # NoPath
     /\ ssOptions.HostsAvoidJSfile \notin {NoPath, last.was}
  \/ /\ last.via = "SetNeedJSfile"
     /\ last.was # NoPath
     /\ ssOptions.HostsNeedJSfile \notin {NoPath, last.was}

\* C23: when SetAvoidJSfile or SetNeedJSfile has pointed a policy at another
\* valid list file, the next query of that policy is decided by the entries
\* of the new file: JavaScript is switched for the URL exactly when its host
\* is on the list in the new file.
C23_NextQueryUsesNewFile ==
  [][ (/\ Switched
       /\ last'.renders = 1
       /\ last.via = (IF ssOptions.JavaScript THEN "SetAvoidJSfile"
                      ELSE "SetNeedJSfile"))
      => LET file == IF ssOptions.JavaScript THEN ssOptions.HostsAvoidJSfile
                     ELSE ssOptions.HostsNeedJSfile
             listed == containsHost(ToLower(hostOrPath(last'.url)),
                                    readListFile(file))
         IN  last'.js = (IF ssOptions.JavaScript THEN ~listed ELSE listed)
    ]_vars


\* ---------------------------------------------------------------------------
\* The last call asked the list of the policy in force, and whether it had
\* to read the list file: the list in memory was empty, or its time had
\* passed.
Queried == Called /\ last.renders = 1 /\ Consulted.file # NoPath

Reloaded ==
  /\ Queried
  /\ \/ Len(Consulted.was.list) = 0
     \/ last.at * MinutesPerHour > Consulted.was.nextTime

\* C24: a query reads the list file exactly when the list in memory is empty
\* or the time is past the list's deadline; the reading replaces the list
\* and sets the deadline to now + wait interval, any other query leaves
\* both alone.  So two readings in a row of a list that was not empty lie
\* more than the wait interval apart.
C24_ReloadPolicy ==
  /\ [](Queried =>
          Consulted.is =
            IF Reloaded
            THEN [nextTime |-> last.at * MinutesPerHour + ssReadWaitTime,
                  list |-> readListFile(Consulted.file)]
            ELSE Consulted.was)
  /\ [][ (Reloaded /\ last' # last /\ Reloaded' /\ Len(Consulted'.was.list) # 0)
         => last'.at * MinutesPerHour
              > last.at * MinutesPerHour + ssReadWaitTime ]_vars

\* A list with entries was read again because its time had passed.
C24_Witness ==
  /\ Reloaded
  /\ Len(Consulted.was.list) # 0
  /\ Len(Consulted.is.list) # 0
  /\ last.at > 0


\* ---------------------------------------------------------------------------
\* The list in memory of the policy that a file name stands for.
PolicyList(aHostsFilename) ==
  IF HasSuffix(aHostsFilename, <<defaultHostsAvoidJS>>)
  THEN ssAvoidJSsites.list ELSE ssNeedJSsites.list

WellFormed(anEntry) ==
  /\ Len(anEntry) > 0
  /\ \A k \in 1..Len(anEntry) : anEntry[k] \notin DOMAIN LowerOf
  /\ Head(anEntry) \notin {" ", "#"}
  /\ anEntry[Len(anEntry)] # " "

OnList(aList) ==
  \E i \in 1..Len(aList) :
    HasSuffix(ToLower(hostOrPath(last.url)), aList[i])

\* C27: a render call with JavaScript enabled globally disables it for the
\* URL exactly when the avoid list is configured and the URL is on it; one
\* with JavaScript disabled globally enables it exactly when the need list
\* is configured and the URL is on it.  Without a list file the global
\* option decides.
C27_JavaScriptForUrl ==
  (Called /\ last.renders = 1) =>
    last.js =
      IF ssOptions.JavaScript
      THEN ~(/\ ssOptions.HostsAvoidJSfile # NoPath
             /\ OnList(ssAvoidJSsites.list))
      ELSE /\ ssOptions.HostsNeedJSfile # NoPath
           /\ OnList(ssNeedJSsites.list)

\* JavaScript is enabled globally and was disabled for a URL on the avoid
\* list.
C27_Witness ==
  /\ Called /\ last.renders = 1
  /\ ssOptions.JavaScript
  /\ ~last.js
  /\ OnList(ssAvoidJSsites.list)


C29_ResizePolicy ==
  last.via = "cropScale" =>
    LET w == last.arg.X
        h == last.arg.Y
        W == ssOptions.ImageWidth
        H == ssOptions.ImageHeight
        wide == W # 0 /\ w > W
        high == H # 0 /\ h > H
    IN  /\ (wide /\ high) => (last.out.X = W /\ last.out.Y = H)
        /\ (high /\ ~wide) => last.out = [X |-> w, Y |-> H, how |-> "cropped"]
        /\ (wide /\ ~high) => last.out = [X |-> W, Y |-> h, how |-> "cropped"]

\* An image of 2000 by 2000 came out as 896 by 768.
C29_Witness ==
  /\ last.via = "cropScale"
  /\ last.arg = [X |-> 2000, Y |-> 2000]
  /\ last.out.X = defaultImageWidth
  /\ last.out.Y = defaultImageHeight


\* ---------------------------------------------------------------------------
\* Both callers have returned a name.
BothDone == \A c \in Callers : race.pc[c] = "done"

\* The place of an event in the log.
At(aKind, c) == CHOOSE i \in 1..Len(race.log) : race.log[i] = <<aKind, c>>

\* The bytes a caller has written, all of them.
Whole(c) == [by |-> c, from |-> 0, to |-> race.len[c]]

====
